---- MODULE Spec2Model ----
(***************************************************************************)
(* Model of the version-history subsystem of numen                         *)
(* (src/src/numen/history/__init__.py) together with the parts of the      *)
(* note store it reads and writes (the live note files), the history       *)
(* commands of the command line (src/src/numen/cli.py) and get_editor      *)
(* (src/src/numen/config/__init__.py).                                     *)
(*                                                                         *)
(* The file system is the state: the live note files, and under the        *)
(* history root one directory per note stem holding <id>.md (content) and  *)
(* <id>.json (metadata) files.  Strings that the code compares or sorts    *)
(* (version ids, file names) are sequences of character codes, so that     *)
(* their lexicographic order is computed and not assumed.                  *)
(***************************************************************************)
EXTENDS Integers, Sequences, FiniteSets, TLC

VARIABLES
    clock,      \* the wall clock, in seconds
    calls,      \* number of version-writing calls made so far
    live,       \* the note files: path -> bytes, or NoFile
    histDir,    \* stem -> whether <history_root>/<stem> exists
    mdFiles,    \* stem -> (version id -> bytes of <id>.md)
    jsonFiles,  \* stem -> (version id -> dictionary in <id>.json)
    last,       \* the last call into the history module and its result
    overwritten,\* path -> the contents that successful restores replaced
                \* since the history of the note was last removed
    resaved,    \* stem -> whether save_version wrote an id that was already
                \* in the history, since the history was last removed
    config,     \* the dictionary get_config() returns (config.toml)
    environ,    \* os.environ: variable name -> value
    editor,     \* what the last call of get_editor returned
    restoring,  \* the restore_version call in progress or, at "idle", the
                \* last one, where its steps are taken one by one: its
                \* position and its locals
    undo        \* path -> the last successful restore of the note: its
                \* second T, the live content L it replaced, and whether
                \* no other restore of the note fell into that second and
                \* the note was not edited nor its history removed since

\* the state of the history module and of the notes
history == <<clock, calls, live, histDir, mdFiles, jsonFiles, last,
             overwritten, resaved>>

\* the state the operations of the history module leave alone where they
\* are taken as one step each
elsewhere == <<config, environ, editor, restoring, undo>>

vars == <<history, elsewhere>>

(***************************************************************************)
(* Bounds of the model.                                                    *)
(***************************************************************************)
\* number of clock seconds that may elapse after the start instant
MaxTicks == 2
\* number of version-writing calls (save_version, save_backup_version) in a run
MaxCalls == 3
\* number of files a failing shutil.rmtree has removed before it fails
MaxRemoved == 1
\* the start instants (seconds within the hour); 58 = 00:58, so that the
\* seconds field wraps into the minutes field while the model runs
StartClocks == {58}

Clocks == UNION {s .. s + MaxTicks : s \in StartClocks}

\* Note contents are the bytes of the file, one element per character.
\* The user writes two texts with "\n" line ends and one with a "\r\n"
\* line end; C is the text that Python reads from the latter.
A == <<"A", "\n">>
B == <<"B", "\n">>
Ccrlf == <<"C", "\r", "\n">>
C == <<"C", "\n">>
Contents == {A, B, Ccrlf}
\* the marker of a file that does not exist
NoFile == <<"<absent>">>

\* note paths and their stems (pathlib.Path.stem)
\* a path is <dir>/<stem>.md
NotePath(dir, stem) == [dir |-> dir, stem |-> stem]
Paths == {NotePath("notes", "demo")}
\* the whole path taken as the key of a note
StemWithDirectory(p) == p

Stem(p) == p.stem
Stems == {Stem(p) : p \in Paths}

\* the message argument of save_version: None or a text
NoneMsg == "<None>"
Messages == {NoneMsg, "m"}

(***************************************************************************)
(* Strings as sequences of character codes.                                *)
(***************************************************************************)
Digit(d) == 48 + d

\* "backup_"
BackupPrefix == <<98, 97, 99, 107, 117, 112, 95>>
\* ".json"
JsonSuffix == <<46, 106, 115, 111, 110>>

\* a format with the fields in the wrong order: "%S%M"
StrftimeSecondsFirst(t) ==
    LET m == (t \div 60) % 60
        s == t % 60
    IN  <<Digit(s \div 10), Digit(s % 10), Digit(m \div 10), Digit(m % 10)>>

\* datetime.now().strftime("%Y%m%d%H%M%S"): zero-padded fields, most
\* significant first.  The clock of the model is the second within the
\* hour; the fields %Y%m%d%H are the same in every id and are left out.
Strftime(t) ==
    LET m == (t \div 60) % 60
        s == t % 60
    IN  <<Digit(m \div 10), Digit(m % 10), Digit(s \div 10), Digit(s % 10)>>

\* Python's str comparison: lexicographic by code point, a proper prefix is
\* smaller
RECURSIVE StrLess(_, _)
StrLess(a, b) ==
    IF b = <<>> THEN FALSE
    ELSE IF a = <<>> THEN TRUE
    ELSE IF Head(a) # Head(b) THEN Head(a) < Head(b)
    ELSE StrLess(Tail(a), Tail(b))

\* sorted(names) without reverse=True
RECURSIVE SortedForward(_)
SortedForward(S) ==
    IF S = {} THEN <<>>
    ELSE LET mn == CHOOSE x \in S : \A y \in S \ {x} : StrLess(x, y)
         IN  <<mn>> \o SortedForward(S \ {mn})

\* sorted(names, reverse=True) over a set of distinct strings
RECURSIVE SortedReverse(_)
SortedReverse(S) ==
    IF S = {} THEN <<>>
    ELSE LET mx == CHOOSE x \in S : \A y \in S \ {x} : StrLess(y, x)
         IN  <<mx>> \o SortedReverse(S \ {mx})

\* the list left as it is
NotReversed(seq) == seq

\* list(reversed(seq))
Reversed(seq) == [i \in 1 .. Len(seq) |-> seq[Len(seq) + 1 - i]]

(***************************************************************************)
(* Text-mode file access: open(path, "r" or "w", encoding="utf-8").        *)
(***************************************************************************)
\* os.linesep of the platform (POSIX)
LineSep == <<"\n">>

\* f.read() with newline=None: universal newlines, "\r\n" and "\r" are
\* both read as "\n"
RECURSIVE ReadText(_)
ReadText(bytes) ==
    IF bytes = <<>> THEN <<>>
    ELSE IF Head(bytes) = "\r"
         THEN IF Len(bytes) >= 2 /\ bytes[2] = "\n"
              THEN <<"\n">> \o ReadText(Tail(Tail(bytes)))
              ELSE <<"\n">> \o ReadText(Tail(bytes))
    ELSE <<Head(bytes)>> \o ReadText(Tail(bytes))

\* f.write(text) with newline=None: "\n" is written as os.linesep
RECURSIVE WriteText(_)
WriteText(text) ==
    IF text = <<>> THEN <<>>
    ELSE IF Head(text) = "\n" THEN LineSep \o WriteText(Tail(text))
    ELSE <<Head(text)>> \o WriteText(Tail(text))

(***************************************************************************)
(* Values.                                                                 *)
(***************************************************************************)
\* Python's None where a version id is expected; no string holds code -1
None == <<-1>>
\* Python's None where file content is expected
NoContent == <<"<None>">>

\* "not x" for x an Optional[str]
Falsy(x) == x = None \/ x = <<>>

\* a version reference: Union[str, int]
StrRef(id) == [isStr |-> TRUE, id |-> id, idx |-> 0]
IntRef(i) == [isStr |-> FALSE, id |-> <<>>, idx |-> i]

\* the ids the code can generate within the modelled time span
RegularIds == {Strftime(t) : t \in Clocks}
BackupIds == {BackupPrefix \o Strftime(t) : t \in Clocks}

\* string references the operations are called with: every id the code can
\* generate, and the empty string
IdRefs == {StrRef(id) : id \in RegularIds \cup BackupIds \cup {<<>>}}

\* the empty directory listing
NoFiles == <<>>

\* the metadata dictionary written beside every version
Metadata(id, ts, msg, p) ==
    [version_id |-> id, timestamp |-> ts, message |-> msg, note_path |-> p]

\* datetime.now().isoformat(): the second, and within it an instant that no
\* two calls share (microseconds), here the serial number of the call
Now == <<clock, calls>>

\* f with key k set to v (open(path, "w") creates or truncates)
WriteFile(f, k, v) == (k :> v) @@ f

(***************************************************************************)
(* Queries: list_versions, resolve_version_id, get_version_content.        *)
(***************************************************************************)
\* name[:-len(".json")]
StripJson(name) == SubSeq(name, 1, Len(name) - Len(JsonSuffix))

\* the listing of a history directory, given whether it exists and its
\* *.json files
ListDir(exists, json) ==
    LET names == {id \o JsonSuffix : id \in DOMAIN json}
        files == SortedReverse(names)
    IN  IF ~exists THEN <<>>
        ELSE [i \in 1 .. Len(files) |-> json[StripJson(files[i])]]

ListVersions(p) == ListDir(histDir[Stem(p)], jsonFiles[Stem(p)])

\* Python's seq[i] for a 0-based index i that may be negative and is known
\* to be in range
PyIndex(seq, i) == IF i < 0 THEN seq[Len(seq) + i + 1] ELSE seq[i + 1]

\* negative indices taken from the oldest-first list, as positive ones are
ResolveVersionIdMirrored(p, ref) ==
    IF ref.isStr THEN ref.id
    ELSE LET versions == ListVersions(p)
             all_versions == Reversed(versions)
             i == ref.idx
         IN  IF versions = <<>> THEN None
             ELSE IF i < 0 /\ -i <= Len(all_versions)
                  THEN PyIndex(all_versions, i).version_id
             ELSE IF i >= 0 /\ i < Len(all_versions)
                  THEN PyIndex(all_versions, i).version_id
             ELSE None

\* a string reference looked up in the listing before it is returned
ResolveVersionIdChecked(p, ref) ==
    LET versions == ListVersions(p)
        all_versions == Reversed(versions)
        i == ref.idx
    IN  IF ref.isStr
        THEN IF \E k \in 1 .. Len(versions) : versions[k].version_id = ref.id
             THEN ref.id ELSE None
        ELSE IF versions = <<>> THEN None
             ELSE IF i < 0 /\ -i <= Len(all_versions)
                  THEN PyIndex(versions, i).version_id
             ELSE IF i >= 0 /\ i < Len(all_versions)
                  THEN PyIndex(all_versions, i).version_id
             ELSE None

\* an index beyond the listing wrapped around its length
ResolveVersionIdWrapped(p, ref) ==
    IF ref.isStr THEN ref.id
    ELSE LET versions == ListVersions(p)
             all_versions == Reversed(versions)
             i == ref.idx
         IN  IF versions = <<>> THEN None
             ELSE IF i < 0
                  THEN PyIndex(versions, -1 - ((-i - 1) % Len(versions))).version_id
             ELSE PyIndex(all_versions, i % Len(all_versions)).version_id

ResolveVersionId(p, ref) ==
    IF ref.isStr THEN ref.id
    ELSE LET versions == ListVersions(p)
             all_versions == Reversed(versions)
             i == ref.idx
         IN  IF versions = <<>> THEN None
             ELSE IF i < 0 /\ -i <= Len(all_versions)
                  THEN PyIndex(versions, i).version_id
             ELSE IF i >= 0 /\ i < Len(all_versions)
                  THEN PyIndex(all_versions, i).version_id
             ELSE None

\* os.path.exists(history_dir / f"{version_id}.md")
VersionFileExists(s, id) == histDir[s] /\ id \in DOMAIN mdFiles[s]

\* the text of <id>.md in a history directory, given whether the directory
\* exists and its *.md files; None when there is no such file
ReadVersion(exists, md, id) ==
    IF ~(exists /\ id \in DOMAIN md) THEN NoContent ELSE ReadText(md[id])

GetVersionContent(note_name, ref) ==
    LET version_id == IF ref.isStr THEN ref.id
                      ELSE ResolveVersionId(NotePath("notes", note_name), ref)
    IN  IF ~ref.isStr /\ Falsy(version_id) THEN NoContent
        ELSE ReadVersion(histDir[note_name], mdFiles[note_name], version_id)

(***************************************************************************)
(* The configuration and the environment (config/__init__.py).             *)
(***************************************************************************)
\* DEFAULT_CONFIG, the editor section
DEFAULT_CONFIG == [editor |-> [default |-> ""]]

\* the default of os.environ.get("EDITOR", "nvim")
DefaultEditor == "nvim"

\* an environment without variables
NoEnviron == <<>>

\* get_editor has not been called
NotCalled == "<not called>"

\* no restore_version call is in progress
Idle == [pc |-> "idle", path |-> NotePath("", ""), version_id |-> None,
         content |-> NoContent, backup_id |-> None, wrote |-> NoContent]

\* no restore has succeeded on the note
NoUndo == [T |-> -1, L |-> NoFile, valid |-> FALSE]

\* the configuration is the default one, no editor is exported, no call
\* is in progress
Elsewhere(paths) ==
    /\ config = DEFAULT_CONFIG
    /\ environ = NoEnviron
    /\ editor = NotCalled
    /\ restoring = Idle
    /\ undo = [p \in paths |-> NoUndo]

(***************************************************************************)
(* Initial state: notes exist or not, no history has been saved.           *)
(***************************************************************************)
\* the last call into the history module and what it returned: ok is the
\* boolean result (for save_version: no exception), id the version id that
\* a successful call resolved or returned; NoCall after a step of the
\* environment
Call(op, p, ok, id) ==
    [op |-> op, path |-> p, ok |-> ok, id |-> id, raised |-> FALSE]

\* the call left by an exception instead of returning
Raise(op, p) ==
    [op |-> op, path |-> p, ok |-> FALSE, id |-> None, raised |-> TRUE]

NoPath == NotePath("", "")
NoCall == Call("none", NoPath, FALSE, None)

Init ==
    /\ clock \in StartClocks
    /\ calls = 0
    /\ live \in [Paths -> Contents \cup {NoFile}]
    /\ histDir = [s \in Stems |-> FALSE]
    /\ mdFiles = [s \in Stems |-> NoFiles]
    /\ jsonFiles = [s \in Stems |-> NoFiles]
    /\ last = NoCall
    /\ overwritten = [p \in Paths |-> {}]
    /\ resaved = [s \in Stems |-> FALSE]
    /\ Elsewhere(Paths)

(***************************************************************************)
(* The environment: time passes, the user edits or deletes a note.         *)
(***************************************************************************)
Tick ==
    /\ clock + 1 \in Clocks
    /\ clock' = clock + 1
    /\ last' = NoCall
    /\ UNCHANGED <<calls, live, histDir, mdFiles, jsonFiles,
                   overwritten, resaved>>

\* the editor (or create_note) writes the note file
EditNote(p, c) ==
    /\ live[p] # c
    /\ live' = [live EXCEPT ![p] = c]
    /\ last' = NoCall
    /\ UNCHANGED <<clock, calls, histDir, mdFiles, jsonFiles,
                   overwritten, resaved>>

\* numen remove: os.remove(note_path)
RemoveNote(p) ==
    /\ live[p] # NoFile
    /\ live' = [live EXCEPT ![p] = NoFile]
    /\ last' = NoCall
    /\ UNCHANGED <<clock, calls, histDir, mdFiles, jsonFiles,
                   overwritten, resaved>>

(***************************************************************************)
(* save_version                                                            *)
(***************************************************************************)
\* message or "Version saved"
MessageOrDefault(msg) == IF msg = NoneMsg THEN "Version saved" ELSE msg

\* a version file that exists is left as it is
SaveVersionKeepFirst(p, msg) ==
    LET s == Stem(p)
        content == ReadText(live[p])
        version_id == Strftime(clock)
        present == histDir[s] /\ version_id \in DOMAIN jsonFiles[s]
    IN  IF live[p] = NoFile
        THEN /\ last' = Raise("save", p)
             /\ UNCHANGED <<clock, calls, live, histDir, mdFiles, jsonFiles,
                   overwritten, resaved>>
        ELSE /\ calls < MaxCalls
             /\ histDir' = [histDir EXCEPT ![s] = TRUE]
             /\ mdFiles' = IF present THEN mdFiles
                           ELSE [mdFiles EXCEPT ![s] =
                                    WriteFile(@, version_id, WriteText(content))]
             /\ jsonFiles' = IF present THEN jsonFiles
                             ELSE [jsonFiles EXCEPT ![s] =
                                      WriteFile(@, version_id,
                                          Metadata(version_id, Now,
                                                   MessageOrDefault(msg), p))]
             /\ calls' = calls + 1
             /\ last' = Call("save", p, TRUE, version_id)
             /\ resaved' = [resaved EXCEPT ![s] = @ \/ present]
             /\ UNCHANGED <<clock, live, overwritten>>

\* the history directory made before the note is looked for
SaveVersionMkdirFirst(p, msg) ==
    LET s == Stem(p)
        content == ReadText(live[p])
        version_id == Strftime(clock)
    IN  IF live[p] = NoFile
        THEN /\ histDir' = [histDir EXCEPT ![s] = TRUE]
             /\ last' = Raise("save", p)
             /\ UNCHANGED <<clock, calls, live, mdFiles, jsonFiles,
                   overwritten, resaved>>
        ELSE /\ calls < MaxCalls
             /\ histDir' = [histDir EXCEPT ![s] = TRUE]
             /\ mdFiles' = [mdFiles EXCEPT ![s] =
                    WriteFile(@, version_id, WriteText(content))]
             /\ jsonFiles' = [jsonFiles EXCEPT ![s] =
                    WriteFile(@, version_id,
                        Metadata(version_id, Now, MessageOrDefault(msg), p))]
             /\ calls' = calls + 1
             /\ last' = Call("save", p, TRUE, version_id)
             /\ resaved' = [resaved EXCEPT ![s] =
                    @ \/ (histDir[s] /\ version_id \in DOMAIN jsonFiles[s])]
             /\ UNCHANGED <<clock, live, overwritten>>

SaveVersion(p, msg) ==
    LET s == Stem(p)
        content == ReadText(live[p])
        version_id == Strftime(clock)
    IN  IF live[p] = NoFile
        THEN \* raise FileNotFoundError
             /\ last' = Raise("save", p)
             /\ UNCHANGED <<clock, calls, live, histDir, mdFiles, jsonFiles,
                   overwritten, resaved>>
        ELSE /\ calls < MaxCalls
             /\ histDir' = [histDir EXCEPT ![s] = TRUE]
             /\ mdFiles' = [mdFiles EXCEPT ![s] =
                    WriteFile(@, version_id, WriteText(content))]
             /\ jsonFiles' = [jsonFiles EXCEPT ![s] =
                    WriteFile(@, version_id,
                        Metadata(version_id, Now, MessageOrDefault(msg), p))]
             /\ calls' = calls + 1
             /\ last' = Call("save", p, TRUE, version_id)
             /\ resaved' = [resaved EXCEPT ![s] =
                    @ \/ (histDir[s] /\ version_id \in DOMAIN jsonFiles[s])]
             /\ UNCHANGED <<clock, live, overwritten>>

(***************************************************************************)
(* restore_version and save_backup_version                                 *)
(***************************************************************************)
BackupMessage == "Automatic backup before restore"

\* the files of the note's history directory after save_backup_version
BackupMd(p) ==
    IF live[p] = NoFile THEN mdFiles[Stem(p)]
    ELSE WriteFile(mdFiles[Stem(p)], BackupPrefix \o Strftime(clock),
             WriteText(ReadText(live[p])))

\* the metadata of the backup written in place of the directory's other
\* metadata files
BackupJsonAlone(p) ==
    LET backup_id == BackupPrefix \o Strftime(clock)
    IN  IF live[p] = NoFile THEN jsonFiles[Stem(p)]
        ELSE (backup_id :> Metadata(backup_id, Now, BackupMessage, p))

BackupJson(p) ==
    LET backup_id == BackupPrefix \o Strftime(clock)
    IN  IF live[p] = NoFile THEN jsonFiles[Stem(p)]
        ELSE WriteFile(jsonFiles[Stem(p)], backup_id,
                 Metadata(backup_id, Now, BackupMessage, p))

\* the backup taken before the version file is looked for
RestoreVersionBackupFirst(p, ref) ==
    LET s == Stem(p)
        version_id == ResolveVersionId(p, ref)
    IN  IF Falsy(version_id)
        THEN /\ last' = Call("restore", p, FALSE, None)
             /\ UNCHANGED <<clock, calls, live, histDir, mdFiles, jsonFiles,
                   overwritten, resaved>>
        ELSE /\ live[p] # NoFile => calls < MaxCalls
             /\ histDir' = [histDir EXCEPT ![s] = @ \/ live[p] # NoFile]
             /\ mdFiles' = [mdFiles EXCEPT ![s] = BackupMd(p)]
             /\ jsonFiles' = [jsonFiles EXCEPT ![s] = BackupJson(p)]
             /\ calls' = IF live[p] = NoFile THEN calls ELSE calls + 1
             /\ IF VersionFileExists(s, version_id)
                THEN /\ live' = [live EXCEPT ![p] = BackupMd(p)[version_id]]
                     /\ last' = Call("restore", p, TRUE, version_id)
                     /\ overwritten' =
                            IF live[p] = NoFile THEN overwritten
                            ELSE [overwritten EXCEPT ![p] = @ \cup {live[p]}]
                ELSE /\ last' = Call("restore", p, FALSE, None)
                     /\ UNCHANGED <<live, overwritten>>
             /\ UNCHANGED <<clock, resaved>>

RestoreVersion(p, ref) ==
    LET s == Stem(p)
        version_id == ResolveVersionId(p, ref)
    IN  IF Falsy(version_id) \/ ~VersionFileExists(s, version_id)
        THEN /\ last' = Call("restore", p, FALSE, None)
             /\ UNCHANGED <<clock, calls, live, histDir, mdFiles, jsonFiles,
                   overwritten, resaved>>
        ELSE /\ live[p] # NoFile => calls < MaxCalls
             \* save_backup_version(note_path)
             /\ mdFiles' = [mdFiles EXCEPT ![s] = BackupMd(p)]
             /\ jsonFiles' = [jsonFiles EXCEPT ![s] = BackupJson(p)]
             /\ calls' = IF live[p] = NoFile THEN calls ELSE calls + 1
             \* shutil.copy2(version_path, note_path), after the backup
             /\ live' = [live EXCEPT ![p] = BackupMd(p)[version_id]]
             /\ last' = Call("restore", p, TRUE, version_id)
             /\ overwritten' = IF live[p] = NoFile THEN overwritten
                               ELSE [overwritten EXCEPT ![p] = @ \cup {live[p]}]
             /\ UNCHANGED <<clock, histDir, resaved>>

(***************************************************************************)
(* remove_history                                                          *)
(***************************************************************************)
\* the history root removed, not the directory of the note
RemoveHistoryRoot(p) ==
    /\ histDir' = [s \in DOMAIN histDir |-> FALSE]
    /\ mdFiles' = [s \in DOMAIN mdFiles |-> NoFiles]
    /\ jsonFiles' = [s \in DOMAIN jsonFiles |-> NoFiles]
    /\ last' = Call("remove_history", p, TRUE, None)
    /\ overwritten' = [q \in DOMAIN overwritten |-> {}]
    /\ resaved' = [s \in DOMAIN resaved |-> FALSE]
    /\ UNCHANGED <<clock, calls, live>>

RemoveHistory(p) ==
    LET s == Stem(p)
    IN  /\ IF ~histDir[s]
           THEN UNCHANGED <<histDir, mdFiles, jsonFiles>>
           ELSE \* shutil.rmtree(history_dir)
                /\ histDir' = [histDir EXCEPT ![s] = FALSE]
                /\ mdFiles' = [mdFiles EXCEPT ![s] = NoFiles]
                /\ jsonFiles' = [jsonFiles EXCEPT ![s] = NoFiles]
        /\ last' = Call("remove_history", p, TRUE, None)
        /\ overwritten' = [q \in DOMAIN overwritten |->
                              IF Stem(q) = s THEN {} ELSE overwritten[q]]
        /\ resaved' = [resaved EXCEPT ![s] = FALSE]
        /\ UNCHANGED <<clock, calls, live>>

(***************************************************************************)
(* compare_versions                                                        *)
(***************************************************************************)
\* the character of a code that occurs in a version id
Chr(c) ==
    CASE c = 48 -> "0" [] c = 49 -> "1" [] c = 50 -> "2" [] c = 51 -> "3"
      [] c = 52 -> "4" [] c = 53 -> "5" [] c = 54 -> "6" [] c = 55 -> "7"
      [] c = 56 -> "8" [] c = 57 -> "9" [] c = 95 -> "_" [] c = 97 -> "a"
      [] c = 98 -> "b" [] c = 99 -> "c" [] c = 107 -> "k" [] c = 112 -> "p"
      [] c = 117 -> "u"

\* a string of codes as text
IdText(id) == [i \in 1 .. Len(id) |-> Chr(id[i])]

\* str.splitlines(): the lines without their ends; "\n", "\r\n" and "\r"
\* end a line, and there is no empty last line
RECURSIVE SplitLinesFrom(_, _)
SplitLinesFrom(text, cur) ==
    IF text = <<>> THEN (IF cur = <<>> THEN <<>> ELSE <<cur>>)
    ELSE IF Head(text) = "\r" /\ Len(text) >= 2 /\ text[2] = "\n"
         THEN <<cur>> \o SplitLinesFrom(Tail(Tail(text)), <<>>)
    ELSE IF Head(text) \in {"\n", "\r"}
         THEN <<cur>> \o SplitLinesFrom(Tail(text), <<>>)
    ELSE SplitLinesFrom(Tail(text), Append(cur, Head(text)))

SplitLines(text) == SplitLinesFrom(text, <<>>)

\* one line of the result of compare_versions, a string of characters:
\* the marker difflib puts in front, and the rest of the line
DiffLine(prefix, text) == prefix \o text

\* "Error: One or both versions not found"
ErrorNotFound ==
    <<"E", "r", "r", "o", "r", ":", " ", "O", "n", "e", " ", "o", "r", " ",
    "b", "o", "t", "h", " ", "v", "e", "r", "s", "i", "o", "n", "s", " ",
    "n", "o", "t", " ", "f", "o", "u", "n", "d">>

\* difflib.SequenceMatcher.find_longest_match on a[alo..ahi], b[blo..bhi]:
\* the longest common block, the earliest in a, then the earliest in b;
\* of length 0 when there is none
LongestMatch(a, b, alo, ahi, blo, bhi) ==
    LET blocks == {m \in (alo .. ahi) \X (blo .. bhi) \X (1 .. Len(a)) :
                      /\ m[1] + m[3] - 1 <= ahi
                      /\ m[2] + m[3] - 1 <= bhi
                      /\ SubSeq(a, m[1], m[1] + m[3] - 1)
                            = SubSeq(b, m[2], m[2] + m[3] - 1)}
    IN  IF blocks = {} THEN <<alo, blo, 0>>
        ELSE CHOOSE m \in blocks : \A n \in blocks :
                 \/ m[3] > n[3]
                 \/ m[3] = n[3] /\ m[1] < n[1]
                 \/ m[3] = n[3] /\ m[1] = n[1] /\ m[2] <= n[2]

\* the lines of the hunk for a[alo..ahi] against b[blo..bhi]: around the
\* longest common block, lines of a alone with "-", then lines of b alone
\* with "+", common lines with " "
RECURSIVE HunkLines(_, _, _, _, _, _)
HunkLines(a, b, alo, ahi, blo, bhi) ==
    LET m == LongestMatch(a, b, alo, ahi, blo, bhi)
    IN  IF m[3] = 0
        THEN [i \in 1 .. ahi - alo + 1 |-> DiffLine(<<"-">>, a[alo + i - 1])]
             \o [i \in 1 .. bhi - blo + 1 |-> DiffLine(<<"+">>, b[blo + i - 1])]
        ELSE HunkLines(a, b, alo, m[1] - 1, blo, m[2] - 1)
             \o [i \in 1 .. m[3] |-> DiffLine(<<" ">>, a[m[1] + i - 1])]
             \o HunkLines(a, b, m[1] + m[3], ahi, m[2] + m[3], bhi)

\* difflib._format_range_unified for a range that starts at the first line
FormatRange(length) ==
    IF length = 1 THEN <<"1">>
    ELSE IF length = 0 THEN <<"0", ",", "0">>
    ELSE <<"1", ",", Chr(Digit(length))>>

\* f"Version {version_id}", the name a version has in the header of a diff
VersionLabel(id) == <<"V", "e", "r", "s", "i", "o", "n", " ">> \o IdText(id)

\* a diff that names the two versions even where it has no hunk
UnifiedDiffWithHeader(lines1, lines2, id1, id2) ==
    <<DiffLine(<<"-", "-", "-">>, <<" ">> \o VersionLabel(id1)),
      DiffLine(<<"+", "+", "+">>, <<" ">> \o VersionLabel(id2))>>
    \o (IF lines1 = lines2 THEN <<>>
        ELSE HunkLines(lines1, lines2, 1, Len(lines1), 1, Len(lines2)))

\* list(difflib.unified_diff(lines1, lines2, fromfile, tofile,
\* lineterm="")), for texts short enough to fall into one hunk
UnifiedDiff(lines1, lines2, id1, id2) ==
    IF lines1 = lines2 THEN <<>>
    ELSE <<DiffLine(<<"-", "-", "-">>, <<" ">> \o VersionLabel(id1)),
           DiffLine(<<"+", "+", "+">>, <<" ">> \o VersionLabel(id2)),
           DiffLine(<<"@", "@">>, <<" ", "-">> \o FormatRange(Len(lines1))
                                  \o <<" ", "+">> \o FormatRange(Len(lines2))
                                  \o <<" ", "@", "@">>)>>
         \o HunkLines(lines1, lines2, 1, Len(lines1), 1, Len(lines2))

\* a version without content file compared as the empty text
CompareVersionsMissingAsEmpty(note_name, ref1, ref2) ==
    LET note_path == NotePath("notes", note_name)
        version_id1 == ResolveVersionId(note_path, ref1)
        version_id2 == ResolveVersionId(note_path, ref2)
        content1 == GetVersionContent(note_name, StrRef(version_id1))
        content2 == GetVersionContent(note_name, StrRef(version_id2))
    IN  IF Falsy(version_id1) \/ Falsy(version_id2) THEN <<ErrorNotFound>>
        ELSE UnifiedDiff(
                 SplitLines(IF content1 = NoContent THEN <<>> ELSE content1),
                 SplitLines(IF content2 = NoContent THEN <<>> ELSE content2),
                 version_id1, version_id2)

CompareVersions(note_name, ref1, ref2) ==
    LET note_path == NotePath("notes", note_name)
        version_id1 == ResolveVersionId(note_path, ref1)
        version_id2 == ResolveVersionId(note_path, ref2)
        content1 == GetVersionContent(note_name, StrRef(version_id1))
        content2 == GetVersionContent(note_name, StrRef(version_id2))
    IN  IF Falsy(version_id1) \/ Falsy(version_id2) THEN <<ErrorNotFound>>
        ELSE IF content1 = NoContent \/ content2 = NoContent
             THEN <<ErrorNotFound>>
        ELSE UnifiedDiff(SplitLines(content1), SplitLines(content2),
                         version_id1, version_id2)

\* "Error: difflib module not available"
ErrorNoDifflib ==
    <<"E", "r", "r", "o", "r", ":", " ", "d", "i", "f", "f", "l", "i", "b",
    " ", "m", "o", "d", "u", "l", "e", " ", "n", "o", "t", " ", "a", "v",
    "a", "i", "l", "a", "b", "l", "e">>

\* str(e) of the exceptions an operation on the history directory raises
ExceptionTexts == {<<"P", "e", "r", "m", "i", "s", "s", "i", "o", "n", " ",
                   "d", "e", "n", "i", "e", "d">>,
                   <<"i", "n", "v", "a", "l", "i", "d", " ", "s", "t", "a",
                   "r", "t", " ", "b", "y", "t", "e">>}

\* f"Error comparing versions: {e}"
ErrorComparing(e) ==
    <<"E", "r", "r", "o", "r", " ", "c", "o", "m", "p", "a", "r", "i", "n",
    "g", " ", "v", "e", "r", "s", "i", "o", "n", "s", ":", " ">> \o e

\* the places where compare_versions can meet an exception, all of them
\* inside its try: the import of difflib, get_history_dir(), list_versions
\* for an index (it opens and parses the metadata files), and the read of a
\* content file that exists
CompareFaults(note_name, ref1, ref2) ==
    LET note_path == NotePath("notes", note_name)
        version_id1 == ResolveVersionId(note_path, ref1)
        version_id2 == ResolveVersionId(note_path, ref2)
    IN  {"import", "root"}
        \cup (IF /\ ~ref1.isStr \/ ~ref2.isStr
                 /\ ListVersions(note_path) # <<>>
              THEN {"list"} ELSE {})
        \cup (IF /\ ~Falsy(version_id1) /\ ~Falsy(version_id2)
                 /\ VersionFileExists(note_name, version_id1)
              THEN {"read"} ELSE {})

\* compare_versions when the exception of fault is raised inside it
CompareVersionsFailing(note_name, ref1, ref2, fault, e) ==
    IF fault = "import" THEN <<ErrorNoDifflib>> ELSE <<ErrorComparing(e)>>

\* the test of diff_versions_cmd on the result of compare_versions:
\* not diff_lines or diff_lines[0].startswith("Error:")
ErrorSentinel == <<"E", "r", "r", "o", "r", ":">>

(***************************************************************************)
(* The history commands of the command line: list, view, restore, diff.    *)
(***************************************************************************)
\* str.isdigit() for a string of ASCII characters
IsDigit(str) ==
    str # <<>> /\ \A i \in 1 .. Len(str) : str[i] \in Digit(0) .. Digit(9)

\* int(str) for a string of digits, most significant first
RECURSIVE IntFrom(_, _)
IntFrom(str, acc) ==
    IF str = <<>> THEN acc
    ELSE IntFrom(Tail(str), 10 * acc + (Head(str) - Digit(0)))

PyInt(str) == IntFrom(str, 0)

\* str(n) for an integer n >= 0
RECURSIVE Str(_)
Str(n) == IF n < 10 THEN <<Digit(n)>> ELSE Str(n \div 10) \o <<Digit(n % 10)>>

\* the version argument of view, restore and diff as the commands pass it
\* on: int(version) if version.isdigit(), else the string.  The ids of the
\* model leave out the fields %Y%m%d%H, which would make the number of an
\* id larger still.
CliVersionRef(version) ==
    IF IsDigit(version) THEN IntRef(PyInt(version)) ELSE StrRef(version)

\* the rows numbered in the order of the listing
ShownIndexInListOrder(versions, i) == i

\* the index display_versions shows in row i of the listing, i counted
\* from 0 as enumerate does
ShownIndex(versions, i) == Len(versions) - i - 1

\* the rows of the table of display_versions: str(index), version_id,
\* message
DisplayVersions(versions) ==
    [r \in 1 .. Len(versions) |->
        [index |-> Str(ShownIndex(versions, r - 1)),
         version_id |-> versions[r].version_id,
         message |-> versions[r].message]]

\* history view: the content printed, None where the command reports
\* "not found" (if not content)
ViewVersionCmd(p, version) ==
    LET content == GetVersionContent(Stem(p), CliVersionRef(version))
    IN  IF content = NoContent \/ content = <<>> THEN NoContent ELSE content

\* history diff: the result of compare_versions for the two arguments
DiffVersionsCmd(p, version1, version2) ==
    CompareVersions(Stem(p), CliVersionRef(version1), CliVersionRef(version2))

\* references restore_version is called with: every index in range and one
\* out of range on either side, and the string references
Refs(p) ==
    LET N == Len(ListVersions(p))
    IN  {IntRef(i) : i \in -(N + 1) .. N + 1} \cup IdRefs

Next ==
    \/ Tick /\ UNCHANGED elsewhere
    \/ \E p \in Paths, c \in Contents : EditNote(p, c) /\ UNCHANGED elsewhere
    \/ \E p \in Paths : RemoveNote(p) /\ UNCHANGED elsewhere
    \/ \E p \in Paths, msg \in Messages : SaveVersion(p, msg)
           /\ UNCHANGED elsewhere
    \/ \E p \in Paths : \E ref \in Refs(p) : RestoreVersion(p, ref)
           /\ UNCHANGED elsewhere
    \/ \E p \in Paths : RemoveHistory(p) /\ UNCHANGED elsewhere

Spec == Init /\ [][Next]_vars

(***************************************************************************)
(* Two notes: the operations of the history module on a notes directory    *)
(* that holds a second note, with its own stem, all within one clock       *)
(* second.                                                                 *)
(***************************************************************************)
TwoNotes == Paths \cup {NotePath("notes", "other")}

\* the texts the notes are given where two notes are modelled
TwoNotesContents == {A, B}

InitTwoNotes ==
    /\ clock \in StartClocks
    /\ calls = 0
    /\ live \in [TwoNotes -> TwoNotesContents \cup {NoFile}]
    /\ histDir = [s \in {Stem(p) : p \in TwoNotes} |-> FALSE]
    /\ mdFiles = [s \in {Stem(p) : p \in TwoNotes} |-> NoFiles]
    /\ jsonFiles = [s \in {Stem(p) : p \in TwoNotes} |-> NoFiles]
    /\ last = NoCall
    /\ overwritten = [p \in TwoNotes |-> {}]
    /\ resaved = [s \in {Stem(p) : p \in TwoNotes} |-> FALSE]
    /\ Elsewhere(TwoNotes)

\* the index references in range, and one out of range on either side
IndexRefs(p) == {ref \in Refs(p) : ~ref.isStr}

NextTwoNotes ==
    \/ \E p \in TwoNotes, c \in TwoNotesContents : EditNote(p, c)
           /\ UNCHANGED elsewhere
    \/ \E p \in TwoNotes : SaveVersion(p, NoneMsg) /\ UNCHANGED elsewhere
    \/ \E p \in TwoNotes : \E ref \in IndexRefs(p) : RestoreVersion(p, ref)
           /\ UNCHANGED elsewhere
    \/ \E p \in TwoNotes : RemoveHistory(p) /\ UNCHANGED elsewhere

SpecTwoNotes == InitTwoNotes /\ [][NextTwoNotes]_vars

(***************************************************************************)
(* Notes of the same name: a third note, with the stem of the first in     *)
(* another directory.                                                      *)
(***************************************************************************)
SameStemNotes == TwoNotes \cup {NotePath("archive", "demo")}

InitSameStem ==
    /\ clock \in StartClocks
    /\ calls = 0
    /\ live \in [SameStemNotes -> TwoNotesContents]
    /\ histDir = [s \in {Stem(p) : p \in SameStemNotes} |-> FALSE]
    /\ mdFiles = [s \in {Stem(p) : p \in SameStemNotes} |-> NoFiles]
    /\ jsonFiles = [s \in {Stem(p) : p \in SameStemNotes} |-> NoFiles]
    /\ last = NoCall
    /\ overwritten = [p \in SameStemNotes |-> {}]
    /\ resaved = [s \in {Stem(p) : p \in SameStemNotes} |-> FALSE]
    /\ Elsewhere(SameStemNotes)

NextSameStem ==
    \/ Tick /\ UNCHANGED elsewhere
    \/ \E p \in SameStemNotes : SaveVersion(p, NoneMsg) /\ UNCHANGED elsewhere
    \/ \E p \in SameStemNotes : \E ref \in IndexRefs(p) :
           RestoreVersion(p, ref) /\ UNCHANGED elsewhere
    \/ \E p \in SameStemNotes : RemoveHistory(p) /\ UNCHANGED elsewhere

SpecSameStem == InitSameStem /\ [][NextSameStem]_vars

(***************************************************************************)
(* I/O failures: the calls of save_version, restore_version and            *)
(* remove_history during which a file system operation fails (OSError, or  *)
(* a metadata file that does not decode), all within one clock second.     *)
(***************************************************************************)
\* f without the keys in S
Restrict(f, S) ==
    IF DOMAIN f \subseteq S THEN NoFiles ELSE [k \in DOMAIN f \ S |-> f[k]]

\* what a file can hold after a write of bytes that was cut short
Prefixes(bytes) == {SubSeq(bytes, 1, k) : k \in 0 .. Len(bytes) - 1}

\* the steps of restore_version outside its try block: making the history
\* root (get_history_dir) and, for an index, reading the metadata files
\* (list_versions)
UnguardedSteps(p, ref) ==
    {"root"} \cup
    IF ~ref.isStr /\ histDir[Stem(p)] /\ DOMAIN jsonFiles[Stem(p)] # {}
    THEN {"list"} ELSE {}

\* the failure passes through restore_version to its caller
RestoreVersionRaises(p, ref, step) ==
    /\ step \in UnguardedSteps(p, ref)
    /\ last' = Raise("restore", p)
    /\ UNCHANGED <<clock, calls, live, histDir, mdFiles, jsonFiles,
                   overwritten, resaved>>

\* save_backup_version fails: before it has written anything, or between
\* its two writes; the exception is caught in restore_version
RestoreVersionBackupFails(p, ref, written) ==
    LET s == Stem(p)
        version_id == ResolveVersionId(p, ref)
    IN  /\ ~Falsy(version_id) /\ VersionFileExists(s, version_id)
        /\ live[p] # NoFile
        /\ written => calls < MaxCalls
        /\ mdFiles' = IF written THEN [mdFiles EXCEPT ![s] = BackupMd(p)]
                      ELSE mdFiles
        /\ calls' = IF written THEN calls + 1 ELSE calls
        /\ last' = Call("restore", p, FALSE, None)
        /\ UNCHANGED <<clock, live, histDir, jsonFiles, overwritten, resaved>>

\* shutil.copy2 fails after the backup: the note is as it was, or holds
\* the part of the version that was written; the exception is caught
RestoreVersionCopyFails(p, ref, left) ==
    LET s == Stem(p)
        version_id == ResolveVersionId(p, ref)
    IN  /\ ~Falsy(version_id) /\ VersionFileExists(s, version_id)
        /\ live[p] # NoFile => calls < MaxCalls
        /\ left \in {live[p]} \cup Prefixes(BackupMd(p)[version_id])
        /\ mdFiles' = [mdFiles EXCEPT ![s] = BackupMd(p)]
        /\ jsonFiles' = [jsonFiles EXCEPT ![s] = BackupJson(p)]
        /\ calls' = IF live[p] = NoFile THEN calls ELSE calls + 1
        /\ live' = [live EXCEPT ![p] = left]
        /\ last' = Call("restore", p, FALSE, None)
        /\ UNCHANGED <<clock, histDir, overwritten, resaved>>

\* get_history_dir fails in remove_history, outside its try block
RemoveHistoryRaises(p) ==
    /\ last' = Raise("remove_history", p)
    /\ UNCHANGED <<clock, calls, live, histDir, mdFiles, jsonFiles,
                   overwritten, resaved>>

\* the sets of files shutil.rmtree can have removed from the history
\* directory of the note when it fails: it removes the files one by one,
\* in the order the directory lists them, which is any order
RemovedFiles(p) ==
    {removed \in [md : SUBSET DOMAIN mdFiles[Stem(p)],
                  json : SUBSET DOMAIN jsonFiles[Stem(p)]] :
        Cardinality(removed.md) + Cardinality(removed.json) <= MaxRemoved}

\* shutil.rmtree fails after it has removed the content files removed.md
\* and the metadata files removed.json; the exception is caught
RemoveHistoryFails(p, removed) ==
    LET s == Stem(p)
    IN  /\ histDir[s]
        /\ removed \in RemovedFiles(p)
        /\ mdFiles' = [mdFiles EXCEPT ![s] = Restrict(@, removed.md)]
        /\ jsonFiles' = [jsonFiles EXCEPT ![s] = Restrict(@, removed.json)]
        /\ last' = Call("remove_history", p, FALSE, None)
        /\ UNCHANGED <<clock, calls, live, histDir, overwritten, resaved>>

\* save_version that writes the metadata file first, and fails before it
\* has written the content file
SaveVersionFailsMetadataFirst(p, written) ==
    LET s == Stem(p)
        version_id == Strftime(clock)
    IN  /\ live[p] # NoFile
        /\ written => calls < MaxCalls
        /\ histDir' = [histDir EXCEPT ![s] = TRUE]
        /\ jsonFiles' = IF written
                        THEN [jsonFiles EXCEPT ![s] =
                                 WriteFile(@, version_id,
                                     Metadata(version_id, Now,
                                              MessageOrDefault(NoneMsg), p))]
                        ELSE jsonFiles
        /\ calls' = IF written THEN calls + 1 ELSE calls
        /\ last' = Raise("save", p)
        /\ UNCHANGED <<clock, live, mdFiles, overwritten, resaved>>

\* save_version fails in one of its two writes: before anything is
\* written, or with the content file written and the metadata file not;
\* the exception reaches the caller
SaveVersionFails(p, written) ==
    LET s == Stem(p)
        version_id == Strftime(clock)
    IN  /\ live[p] # NoFile
        /\ written => calls < MaxCalls
        /\ histDir' = [histDir EXCEPT ![s] = TRUE]
        /\ mdFiles' = IF written
                      THEN [mdFiles EXCEPT ![s] =
                               WriteFile(@, version_id,
                                   WriteText(ReadText(live[p])))]
                      ELSE mdFiles
        /\ calls' = IF written THEN calls + 1 ELSE calls
        /\ last' = Raise("save", p)
        /\ UNCHANGED <<clock, live, jsonFiles, overwritten, resaved>>

\* references of the calls where failures are modelled: the oldest and the
\* last listed version by index, and the stored versions by id
StoredRefs(p) ==
    {IntRef(0), IntRef(-1)} \cup {StrRef(id) : id \in DOMAIN mdFiles[Stem(p)]}

NextIO ==
    \/ \E p \in Paths, c \in TwoNotesContents : EditNote(p, c)
           /\ UNCHANGED elsewhere
    \/ \E p \in Paths : SaveVersion(p, NoneMsg) /\ UNCHANGED elsewhere
    \/ \E p \in Paths : \E ref \in StoredRefs(p) : RestoreVersion(p, ref)
           /\ UNCHANGED elsewhere
    \/ \E p \in Paths : RemoveHistory(p) /\ UNCHANGED elsewhere
    \/ \E p \in Paths : \E ref \in StoredRefs(p) :
           \E step \in {"root", "list"} : RestoreVersionRaises(p, ref, step)
           /\ UNCHANGED elsewhere
    \/ \E p \in Paths : \E ref \in StoredRefs(p) :
           \E written \in BOOLEAN : RestoreVersionBackupFails(p, ref, written)
           /\ UNCHANGED elsewhere
    \/ \E p \in Paths : \E ref \in StoredRefs(p) :
           \E left \in {live[p]} \cup
                        UNION {Prefixes(BackupMd(p)[id]) : id \in DOMAIN BackupMd(p)} :
               RestoreVersionCopyFails(p, ref, left) /\ UNCHANGED elsewhere
    \/ \E p \in Paths : RemoveHistoryRaises(p) /\ UNCHANGED elsewhere
    \/ \E p \in Paths : \E removed \in RemovedFiles(p) :
           RemoveHistoryFails(p, removed) /\ UNCHANGED elsewhere
    \/ \E p \in Paths, written \in BOOLEAN :
           SaveVersionFails(p, written) /\ UNCHANGED elsewhere

SpecIO == Init /\ [][NextIO]_vars

(***************************************************************************)
(* get_editor: the editor that edit_note starts, from the configuration    *)
(* and the environment.                                                    *)
(***************************************************************************)
\* the editors a user configures or exports
EditorNames == {"vim", "nano", "code", "emacs", "hx", "nvim"}

\* the values of editor.default and of EDITOR: a name, or the empty string
EditorValues == EditorNames \cup {""}

\* the environment asked before the configuration
GetEditorEnvFirst(cfg, env) ==
    IF "EDITOR" \in DOMAIN env THEN env["EDITOR"]
    ELSE IF cfg.editor.default # "" THEN cfg.editor.default
    ELSE DefaultEditor

GetEditor(cfg, env) ==
    LET configured == cfg.editor.default
    IN  IF configured # "" THEN configured
        ELSE IF "EDITOR" \in DOMAIN env THEN env["EDITOR"]
        ELSE DefaultEditor

\* the user sets editor.default in config.toml
SetEditorDefault(v) ==
    /\ config' = [config EXCEPT !.editor.default = v]
    /\ editor' = NotCalled
    /\ UNCHANGED <<history, environ, restoring, undo>>

\* the user exports EDITOR=v
ExportEditor(v) ==
    /\ environ' = ("EDITOR" :> v)
    /\ editor' = NotCalled
    /\ UNCHANGED <<history, config, restoring, undo>>

\* the user unsets EDITOR
UnsetEditor ==
    /\ environ' = NoEnviron
    /\ editor' = NotCalled
    /\ UNCHANGED <<history, config, restoring, undo>>

\* a call of get_editor
CallGetEditor ==
    /\ editor' = GetEditor(config, environ)
    /\ UNCHANGED <<history, config, environ, restoring, undo>>

NextEditor ==
    \/ \E v \in EditorValues : SetEditorDefault(v)
    \/ \E v \in EditorValues : ExportEditor(v)
    \/ UnsetEditor
    \/ CallGetEditor

SpecEditor == Init /\ [][NextEditor]_vars

(***************************************************************************)
(* restore_version step by step, beside another process that writes the    *)
(* note or saves a version of it: nothing locks the note or its history.   *)
(* The steps are the file system operations of restore_version and of      *)
(* save_backup_version, in the order of the code, all within one clock     *)
(* second.                                                                 *)
(***************************************************************************)
\* lines 173-185: the reference is resolved and the version file looked
\* for; the call returns False, or goes on to the backup
RestoreResolve(p, ref) ==
    LET version_id == ResolveVersionId(p, ref)
    IN  /\ restoring.pc = "idle"
        /\ IF Falsy(version_id) \/ ~VersionFileExists(Stem(p), version_id)
           THEN /\ last' = Call("restore", p, FALSE, None)
                /\ UNCHANGED restoring
           ELSE /\ last' = NoCall
                /\ restoring' = [Idle EXCEPT !.pc = "BackingUp", !.path = p,
                                             !.version_id = version_id]
        /\ UNCHANGED <<clock, calls, live, histDir, mdFiles, jsonFiles,
                       overwritten, resaved>>
        /\ UNCHANGED <<config, environ, editor, undo>>

\* lines 204-212: save_backup_version returns if there is no note, else
\* reads it and names the backup
BackupRead ==
    LET p == restoring.path
    IN  /\ restoring.pc = "BackingUp"
        /\ IF live[p] = NoFile
           THEN restoring' = [restoring EXCEPT !.pc = "Overwriting"]
           ELSE /\ calls < MaxCalls
                /\ restoring' = [restoring EXCEPT
                       !.pc = "WriteContent",
                       !.content = ReadText(live[p]),
                       !.backup_id = BackupPrefix \o Strftime(clock)]
        /\ UNCHANGED <<history, config, environ, editor, undo>>

\* the backup goes on to its metadata without having written its content
BackupWriteContentSkipped ==
    /\ restoring.pc = "WriteContent"
    /\ restoring' = [restoring EXCEPT !.pc = "WriteMetadata"]
    /\ UNCHANGED <<history, config, environ, editor, undo>>

\* lines 218-224: the content file of the backup is written
BackupWriteContent ==
    LET s == Stem(restoring.path)
    IN  /\ restoring.pc = "WriteContent"
        /\ histDir' = [histDir EXCEPT ![s] = TRUE]
        /\ mdFiles' = [mdFiles EXCEPT ![s] =
               WriteFile(@, restoring.backup_id, WriteText(restoring.content))]
        /\ restoring' = [restoring EXCEPT !.pc = "WriteMetadata"]
        /\ UNCHANGED <<clock, calls, live, jsonFiles, last, overwritten,
                       resaved>>
        /\ UNCHANGED <<config, environ, editor, undo>>

\* lines 227-236: the metadata file of the backup is written
BackupWriteMetadata ==
    LET s == Stem(restoring.path)
        backup_id == restoring.backup_id
    IN  /\ restoring.pc = "WriteMetadata"
        /\ jsonFiles' = [jsonFiles EXCEPT ![s] =
               WriteFile(@, backup_id,
                   Metadata(backup_id, Now, BackupMessage, restoring.path))]
        /\ calls' = calls + 1
        /\ restoring' = [restoring EXCEPT !.pc = "Overwriting"]
        /\ UNCHANGED <<clock, live, histDir, mdFiles, last, overwritten,
                       resaved>>
        /\ UNCHANGED <<config, environ, editor, undo>>

\* an exception in save_backup_version, while it reads the note or writes
\* one of its two files: caught at line 195, the call returns False
BackupFails ==
    /\ restoring.pc \in {"BackingUp", "WriteContent", "WriteMetadata"}
    /\ live[restoring.path] # NoFile
    /\ last' = Call("restore", restoring.path, FALSE, None)
    /\ restoring' = [restoring EXCEPT !.pc = "idle"]
    /\ UNCHANGED <<clock, calls, live, histDir, mdFiles, jsonFiles,
                   overwritten, resaved>>
    /\ UNCHANGED <<config, environ, editor, undo>>

\* the call leaves alone a note that another process has written since
\* the backup, and returns True
OverwriteUnlessWritten ==
    /\ restoring.pc = "Overwriting"
    /\ IF restoring.wrote = NoContent
       THEN live' = [live EXCEPT ![restoring.path] =
                        mdFiles[Stem(restoring.path)][restoring.version_id]]
       ELSE UNCHANGED live
    /\ last' = Call("restore", restoring.path, TRUE, restoring.version_id)
    /\ restoring' = [restoring EXCEPT !.pc = "idle"]
    /\ UNCHANGED <<clock, calls, histDir, mdFiles, jsonFiles, overwritten,
                   resaved>>
    /\ UNCHANGED <<config, environ, editor, undo>>

\* lines 192-194: shutil.copy2(version_path, note_path)
Overwrite ==
    LET p == restoring.path
        s == Stem(p)
    IN  /\ restoring.pc = "Overwriting"
        /\ live' = [live EXCEPT ![p] = mdFiles[s][restoring.version_id]]
        /\ last' = Call("restore", p, TRUE, restoring.version_id)
        /\ overwritten' = IF live[p] = NoFile THEN overwritten
                          ELSE [overwritten EXCEPT ![p] = @ \cup {live[p]}]
        /\ restoring' = [restoring EXCEPT !.pc = "idle"]
        /\ UNCHANGED <<clock, calls, histDir, mdFiles, jsonFiles, resaved>>
        /\ UNCHANGED <<config, environ, editor, undo>>

\* shutil.copy2 fails: the note is as it was, or holds the part of the
\* version that was written; caught at line 195, the call returns False
OverwriteFails(left) ==
    LET p == restoring.path
    IN  /\ restoring.pc = "Overwriting"
        /\ left \in {live[p]}
                    \cup Prefixes(mdFiles[Stem(p)][restoring.version_id])
        /\ live' = [live EXCEPT ![p] = left]
        /\ last' = Call("restore", p, FALSE, None)
        /\ restoring' = [restoring EXCEPT !.pc = "idle"]
        /\ UNCHANGED <<clock, calls, histDir, mdFiles, jsonFiles,
                       overwritten, resaved>>
        /\ UNCHANGED <<config, environ, editor, undo>>

\* the backup of the call in progress has read the note
BackupHasRead == restoring.pc \in {"WriteContent", "WriteMetadata", "Overwriting"}

\* another process writes the note (an editor saving, numen new); wrote
\* keeps what it wrote last after the backup had read the note
ConcurrentWrite(p, c) ==
    /\ EditNote(p, c)
    /\ restoring' = IF BackupHasRead /\ restoring.path = p
                    THEN [restoring EXCEPT !.wrote = c]
                    ELSE restoring
    /\ UNCHANGED <<config, environ, editor, undo>>

\* the contents the other process writes
ConcurrentContents == {A, B}

NextSteps ==
    \/ \E p \in Paths, c \in ConcurrentContents : ConcurrentWrite(p, c)
    \/ \E p \in Paths : SaveVersion(p, NoneMsg) /\ UNCHANGED elsewhere
    \/ \E p \in Paths : \E ref \in StoredRefs(p) : RestoreResolve(p, ref)
    \/ BackupRead
    \/ BackupWriteContent
    \/ BackupWriteMetadata
    \/ BackupFails
    \/ Overwrite
    \/ /\ restoring.pc = "Overwriting"
       /\ \E left \in {live[restoring.path], <<>>} : OverwriteFails(left)

SpecSteps == Init /\ [][NextSteps]_vars

(***************************************************************************)
(* The operations of the history module with a record of the last          *)
(* successful restore of each note.                                        *)
(***************************************************************************)
\* the record after a restore_version call on p that returned True in the
\* current second, when the note held content
Restored(p, content) ==
    [T |-> clock, L |-> content,
     valid |-> content # NoFile /\ undo[p].T # clock]

\* the record of p no longer describes the note
Invalidated(p) == [undo EXCEPT ![p].valid = FALSE]

\* the references of the calls: the oldest and the last listed version by
\* index, the stored versions and the backup of the recorded restore by id
UndoRefs(p) ==
    StoredRefs(p) \cup {StrRef(BackupPrefix \o Strftime(undo[p].T))}

NextUndo ==
    \/ Tick /\ UNCHANGED elsewhere
    \/ \E p \in Paths, c \in Contents :
           /\ EditNote(p, c)
           /\ undo' = Invalidated(p)
           /\ UNCHANGED <<config, environ, editor, restoring>>
    \/ \E p \in Paths : SaveVersion(p, NoneMsg) /\ UNCHANGED elsewhere
    \/ \E p \in Paths : \E ref \in UndoRefs(p) :
           /\ RestoreVersion(p, ref)
           /\ undo' = IF last'.ok
                      THEN [undo EXCEPT ![p] = Restored(p, live[p])]
                      ELSE undo
           /\ UNCHANGED <<config, environ, editor, restoring>>
    \/ \E p \in Paths :
           /\ RemoveHistory(p)
           /\ undo' = Invalidated(p)
           /\ UNCHANGED <<config, environ, editor, restoring>>

SpecUndo == Init /\ [][NextUndo]_vars

(***************************************************************************)
(* Vocabulary of the properties.                                           *)
(***************************************************************************)
\* str.startswith
StartsWith(str, prefix) ==
    Len(str) >= Len(prefix) /\ SubSeq(str, 1, Len(prefix)) = prefix

\* the ids that list_versions reports for the note
ListedIdsIn(exists, json) ==
    LET vs == ListDir(exists, json)
    IN  {vs[i].version_id : i \in 1 .. Len(vs)}

ListedIds(p) == ListedIdsIn(histDir[Stem(p)], jsonFiles[Stem(p)])

\* the stored text of a listed version, as get_version_content returns it
ContentOf(p, id) == GetVersionContent(Stem(p), StrRef(id))

\* t1 is an earlier instant than t2
Earlier(t1, t2) == t1[1] < t2[1] \/ (t1[1] = t2[1] /\ t1[2] < t2[2])

\* the listed version that was written first
EarliestListed(p) ==
    LET vs == ListVersions(p)
    IN  CHOOSE v \in {vs[i] : i \in 1 .. Len(vs)} :
            \A j \in 1 .. Len(vs) : vs[j] = v \/ Earlier(v.timestamp, vs[j].timestamp)

\* the listed version that was written last
LatestListed(p) ==
    LET vs == ListVersions(p)
    IN  CHOOSE v \in {vs[i] : i \in 1 .. Len(vs)} :
            \A j \in 1 .. Len(vs) : vs[j] = v \/ Earlier(vs[j].timestamp, v.timestamp)

\* the last step was a restore_version call on p that returned True
RestoredOk(call, p) == call.op = "restore" /\ call.path = p /\ call.ok

(***************************************************************************)
(* C1: if restore_version returns True, the live note afterwards holds the *)
(* content that the resolved version held when restore was called.         *)
(* Stated as in the claim; the code violates it when the reference names   *)
(* the backup id of the current second.                                    *)
(***************************************************************************)
C1_RestoreYieldsVersionContent ==
    [][\A p \in Paths :
          RestoredOk(last', p) =>
              ReadText(live'[p]) = ContentOf(p, last'.id)]_vars

(***************************************************************************)
(* C2: every restore_version call that returns True adds a version whose   *)
(* id was not in the history before, starts with "backup_", carries the    *)
(* message "Automatic backup before restore" and holds the live content of *)
(* the moment before the restore.  Stated as in the claim; violated.       *)
(***************************************************************************)
C2_RestoreAddsBackup ==
    [][\A p \in Paths :
          RestoredOk(last', p) =>
              \E id \in BackupIds :
                  /\ id \notin ListedIds(p)
                  /\ id \in ListedIds(p)'
                  /\ StartsWith(id, BackupPrefix)
                  /\ jsonFiles'[Stem(p)][id].message = BackupMessage
                  /\ live[p] # NoFile
                  /\ ReadVersion(histDir'[Stem(p)], mdFiles'[Stem(p)], id)
                        = ReadText(live[p])]_vars

(***************************************************************************)
(* C3: when the reference does not resolve, or resolves to an id without   *)
(* stored content, restore_version returns False and leaves the live notes *)
(* and the history as they were; no backup is written.                     *)
(***************************************************************************)
\* Every call that returns True had resolved its reference to an id with
\* stored content, so a call whose reference does not resolve so returns
\* False; and a call that returns False has changed nothing.
C3_FailedRestoreChangesNothing ==
    [][\A p \in Paths :
          (last'.op = "restore" /\ last'.path = p) =>
              /\ last'.ok => /\ last'.id # None
                             /\ ContentOf(p, last'.id) # NoContent
              /\ ~last'.ok => UNCHANGED <<live, histDir, mdFiles, jsonFiles>>]_vars

\* a restore of an existing note with two or more versions has just failed
C3_Witness ==
    /\ last.op = "restore" /\ ~last.ok
    /\ live[last.path] \in Contents
    /\ Len(ListVersions(last.path)) >= 2

(***************************************************************************)
(* C4: over any sequence of saves and restores, the live content that a    *)
(* successful restore replaced is still the content of some version of the *)
(* note.  Stated as in the claim; violated by two restores in one second.  *)
(***************************************************************************)
C4_OverwrittenStaysInHistory ==
    \A p \in Paths : \A bytes \in overwritten[p] :
        \E id \in ListedIds(p) : ContentOf(p, id) = ReadText(bytes)

(***************************************************************************)
(* C5: right after save_version on a note with content C,                  *)
(* get_version_content for the returned id returns exactly C.  Stated as   *)
(* in the claim, C being what the note file holds; violated when the note  *)
(* has a carriage return.                                                  *)
(***************************************************************************)
C5_SaveThenGetRoundTrip ==
    \A p \in Paths :
        (last.op = "save" /\ last.path = p /\ last.ok) =>
            ContentOf(p, last.id) = live[p]

(***************************************************************************)
(* C6: after saves in distinct, increasing seconds and no restore, the     *)
(* listing is in reverse creation order, index 0 resolves to the id of the *)
(* first save and index N-1 to the id of the most recent save.             *)
(***************************************************************************)
\* the history of p holds regular saves only, none of them written twice
OnlyDistinctSaves(p) ==
    /\ ~resaved[Stem(p)]
    /\ \A id \in ListedIds(p) : ~StartsWith(id, BackupPrefix)

NewestFirst(vs) ==
    \A i, j \in 1 .. Len(vs) :
        i < j => Earlier(vs[j].timestamp, vs[i].timestamp)

C6_SavesListedNewestFirst ==
    \A p \in Paths :
        LET vs == ListVersions(p)
            N == Len(vs)
        IN  (N >= 1 /\ OnlyDistinctSaves(p)) =>
                /\ NewestFirst(vs)
                /\ ResolveVersionId(p, IntRef(0)) = EarliestListed(p).version_id
                /\ ResolveVersionId(p, IntRef(N - 1)) = LatestListed(p).version_id

\* three saves, one in each of three seconds, the last after the minute
\* has turned
C6_Witness ==
    \E p \in Paths :
        /\ Len(ListVersions(p)) = 3
        /\ OnlyDistinctSaves(p)
        /\ last.op = "save" /\ last.ok
        /\ clock % 60 < 58

(***************************************************************************)
(* C7: in every reachable state with a non-empty history, index 0 resolves *)
(* to the surviving version that was created first, regular saves and      *)
(* backups both counted.                                                   *)
(***************************************************************************)
IndexZeroIsEarliest(p) ==
    ResolveVersionId(p, IntRef(0)) = EarliestListed(p).version_id

C8_NonNegativeIndexCountsFromEnd ==
    \A p \in Paths :
        LET vs == ListVersions(p)
            N == Len(vs)
        IN  \A i \in 0 .. N - 1 :
                ResolveVersionId(p, IntRef(i)) = vs[(N - 1 - i) + 1].version_id

\* a listing of three versions, backups and regular saves mixed
C8_Witness ==
    \E p \in Paths :
        /\ Len(ListVersions(p)) = 3
        /\ \E id \in ListedIds(p) : StartsWith(id, BackupPrefix)
        /\ ResolveVersionId(p, IntRef(0)) # ResolveVersionId(p, IntRef(2))

SavedABC(p) ==
    /\ Len(ListVersions(p)) = 3
    /\ OnlyDistinctSaves(p)
    /\ NewestFirst(ListVersions(p))
    /\ ContentOf(p, ListVersions(p)[3].version_id) = A
    /\ ContentOf(p, ListVersions(p)[2].version_id) = B
    /\ ContentOf(p, ListVersions(p)[1].version_id) = C

C10_MinusOneIsNewest ==
    \A p \in Paths :
        SavedABC(p) =>
            /\ GetVersionContent(Stem(p), IntRef(-1)) = C
            /\ ResolveVersionId(p, IntRef(-1)) = ResolveVersionId(p, IntRef(2))

(***************************************************************************)
(* C11: for a note with zero saved versions list_versions returns the      *)
(* empty sequence, and resolve_version_id returns None for every           *)
(* reference, integer or string.                                           *)
(***************************************************************************)
\* nothing is stored for the note
ZeroSaved(p) == ~histDir[Stem(p)] \/ DOMAIN jsonFiles[Stem(p)] = {}

\* as stated in the claim; violated by every string reference
C11_EmptyHistoryResolvesToNone ==
    \A p \in Paths :
        ZeroSaved(p) =>
            /\ ListVersions(p) = <<>>
            /\ \A ref \in Refs(p) : ResolveVersionId(p, ref) = None

\* amended: None for every integer index; a string reference is returned
\* as it is, and no content is found under it
C11_EmptyHistoryIndexResolvesToNone ==
    \A p \in Paths :
        ZeroSaved(p) =>
            /\ ListVersions(p) = <<>>
            /\ \A i \in -2 .. 2 : ResolveVersionId(p, IntRef(i)) = None
            /\ \A ref \in IdRefs :
                   /\ ResolveVersionId(p, ref) = ref.id
                   /\ GetVersionContent(Stem(p), ref) = NoContent

\* a note whose history has been removed after versions were written
C11_Witness ==
    \E p \in Paths :
        /\ ZeroSaved(p)
        /\ last.op = "remove_history" /\ last.path = p
        /\ calls >= 2

(***************************************************************************)
(* C12: for a history of N versions, every index i with i >= N or i < -N   *)
(* resolves to None.                                                       *)
(***************************************************************************)
C12_OutOfRangeIndexIsNone ==
    \A p \in Paths :
        LET N == Len(ListVersions(p))
        IN  \A i \in (N .. N + 2) \cup (-(N + 2) .. -(N + 1)) :
                ResolveVersionId(p, IntRef(i)) = None

\* three versions: 2 and -3 resolve, 3 and -4 do not
C12_Witness ==
    \E p \in Paths :
        /\ Len(ListVersions(p)) = 3
        /\ ResolveVersionId(p, IntRef(2)) # None
        /\ ResolveVersionId(p, IntRef(-3)) # None
        /\ ResolveVersionId(p, IntRef(3)) = None
        /\ ResolveVersionId(p, IntRef(-4)) = None

(***************************************************************************)
(* C13: in every history that holds regular and backup versions, the       *)
(* listing is sorted by version id, descending, and that order is newest   *)
(* first: no version stands before one that was created later.  Stated     *)
(* for the histories in which no id was written twice, where every listed  *)
(* version still carries the instant of its creation; violated, since      *)
(* every "backup_" id sorts above every regular id whatever its time.      *)
(***************************************************************************)
SortedByIdDescending(vs) ==
    \A i, j \in 1 .. Len(vs) :
        i < j => StrLess(vs[j].version_id, vs[i].version_id)

\* the history of p holds a backup and a regular version
MixedHistory(p) ==
    /\ \E id \in ListedIds(p) : StartsWith(id, BackupPrefix)
    /\ \E id \in ListedIds(p) : ~StartsWith(id, BackupPrefix)

C13_MixedListingNewestFirst ==
    \A p \in Paths :
        (MixedHistory(p) /\ ~resaved[Stem(p)]) =>
            /\ SortedByIdDescending(ListVersions(p))
            /\ NewestFirst(ListVersions(p))

(***************************************************************************)
(* C14: once a version id is in the history of a note, no later            *)
(* save_version or restore_version changes the content or the metadata     *)
(* stored under it.  (list_versions, get_version_content and               *)
(* compare_versions write nothing.)  Stated as in the claim; violated by   *)
(* a second save, or the backup of a second restore, within one second.    *)
(***************************************************************************)
C14_VersionsNeverChange ==
    [][\A p \in Paths : \A id \in ListedIds(p) :
          last'.op \in {"save", "restore"} =>
              /\ histDir'[Stem(p)]
              /\ id \in DOMAIN jsonFiles'[Stem(p)]
              /\ id \in DOMAIN mdFiles'[Stem(p)]
              /\ jsonFiles'[Stem(p)][id] = jsonFiles[Stem(p)][id]
              /\ mdFiles'[Stem(p)][id] = mdFiles[Stem(p)][id]]_vars

(***************************************************************************)
(* C15: no save_version or restore_version call takes an id out of the     *)
(* listing of a note; only remove_history of that note does, and it takes  *)
(* out all of them.                                                        *)
(***************************************************************************)
C15_HistoryIsAppendOnly ==
    [][\A p \in Paths :
          \/ UNCHANGED <<histDir, jsonFiles>>
          \/ ListedIds(p) \subseteq
                 ListedIdsIn(histDir'[Stem(p)], jsonFiles'[Stem(p)])
          \/ /\ last'.op = "remove_history"
             /\ Stem(last'.path) = Stem(p)
             /\ ListedIdsIn(histDir'[Stem(p)], jsonFiles'[Stem(p)]) = {}]_vars

\* a restore has just added its backup to two versions that are still there
C15_Witness ==
    \E p \in Paths :
        /\ RestoredOk(last, p)
        /\ Len(ListVersions(p)) = 3
        /\ \E id \in ListedIds(p) : StartsWith(id, BackupPrefix)

(***************************************************************************)
(* C16: a save_version call in a second in which the note was saved        *)
(* before returns the same id; the history then holds one version under    *)
(* that id, with the content and the message of this second call, and the  *)
(* listing is no longer than before it.                                    *)
(***************************************************************************)
C16_SameSecondSaveOverwrites ==
    [][\A p \in Paths, msg \in Messages :
          (/\ SaveVersion(p, msg)
           /\ live[p] # NoFile
           /\ Strftime(clock) \in ListedIds(p)) =>
              LET id == Strftime(clock)
                  s == Stem(p)
              IN  /\ last'.ok /\ last'.id = id
                  /\ Len(ListVersions(p))' = Len(ListVersions(p))
                  /\ Cardinality({k \in 1 .. Len(ListVersions(p))' :
                        ListVersions(p)'[k].version_id = id}) = 1
                  /\ ReadVersion(histDir'[s], mdFiles'[s], id) = ReadText(live[p])
                  /\ jsonFiles'[s][id].message = MessageOrDefault(msg)]_vars

\* the note was saved, edited and saved again with a message in one
\* second: one version, holding the edited text
C16_Witness ==
    \E p \in Paths :
        /\ resaved[Stem(p)]
        /\ last.op = "save" /\ last.path = p /\ last.ok
        /\ Len(ListVersions(p)) = 1
        /\ ListVersions(p)[1].message = "m"
        /\ ListVersions(p)[1].timestamp[2] >= 1
        /\ ContentOf(p, last.id) = ReadText(live[p])

(***************************************************************************)
(* C17: save_version on a note path whose file does not exist raises and   *)
(* changes nothing: no version, no history directory, no metadata.         *)
(***************************************************************************)
C17_SaveOfMissingNoteRaises ==
    [][\A p \in Paths :
          (last'.op = "save" /\ last'.path = p) =>
              /\ live[p] = NoFile =>
                     /\ last'.raised
                     /\ UNCHANGED <<live, histDir, mdFiles, jsonFiles>>
              /\ last'.raised => live[p] = NoFile]_vars

\* save_version has just raised for a note without file and without history
C17_Witness ==
    /\ last.op = "save" /\ last.raised
    /\ live[last.path] = NoFile
    /\ ~histDir[Stem(last.path)]

(***************************************************************************)
(* C18: remove_history returns True, whether the note has a history or     *)
(* not (and then changes nothing); afterwards the listing of the note is   *)
(* empty and every integer index resolves to None, while the histories of  *)
(* the notes with another stem and every live note are as before.          *)
(***************************************************************************)
C18_RemoveHistoryFrame ==
    [][\A p \in TwoNotes :
          (last'.op = "remove_history" /\ last'.path = p) =>
              /\ last'.ok /\ ~last'.raised
              /\ ListDir(histDir'[Stem(p)], jsonFiles'[Stem(p)]) = <<>>
              /\ \A i \in -3 .. 3 : ResolveVersionId(p, IntRef(i))' = None
              /\ ~histDir[Stem(p)] => UNCHANGED <<histDir, mdFiles, jsonFiles>>
              /\ \A q \in TwoNotes :
                     Stem(q) # Stem(p) =>
                         /\ histDir'[Stem(q)] = histDir[Stem(q)]
                         /\ mdFiles'[Stem(q)] = mdFiles[Stem(q)]
                         /\ jsonFiles'[Stem(q)] = jsonFiles[Stem(q)]
              /\ live' = live]_vars

\* the history of one note has just been removed while the other note
\* exists and has a history of two versions
C18_Witness ==
    \E p, q \in TwoNotes :
        /\ Stem(p) # Stem(q)
        /\ last.op = "remove_history" /\ last.path = p /\ last.ok
        /\ calls = 3
        /\ live[p] # NoFile /\ live[q] # NoFile
        /\ Len(ListVersions(q)) = 2

(***************************************************************************)
(* C19: restore_version and remove_history never let an exception through  *)
(* to their caller; an I/O failure at any of their steps, the reading of   *)
(* the listing for an index included, ends in the return value False.      *)
(* Stated as in the claim; violated, the listing is read outside the try   *)
(* block.                                                                  *)
(***************************************************************************)
C19_NoExceptionEscapes ==
    last.op \in {"restore", "remove_history"} => ~last.raised

(***************************************************************************)
(* C20: compare_versions returns a sequence of exactly one element, which  *)
(* begins with "Error:", whenever one of the two references does not       *)
(* resolve (empty history, index out of range, empty string) or resolves   *)
(* to an id without stored content.  The failing reference is compared,    *)
(* on either side, with itself, with the indices 0 and -1 and with every   *)
(* stored id.                                                              *)
(***************************************************************************)
\* the reference resolves to nothing, or to an id that has no content file
Unresolvable(p, ref) ==
    \/ Falsy(ResolveVersionId(p, ref))
    \/ ~VersionFileExists(Stem(p), ResolveVersionId(p, ref))

IsErrorResult(diff) == Len(diff) = 1 /\ StartsWith(diff[1], ErrorSentinel)

\* the references compare_versions is given: the indices in range and
\* one out of range on either side, the ids that are stored, the id of
\* the next second, which is not, and the empty string
CompareRefs(p) ==
    IndexRefs(p) \cup {StrRef(id) : id \in DOMAIN mdFiles[Stem(p)]}
                 \cup {StrRef(Strftime(clock + 1)), StrRef(<<>>)}

C20_CompareUnresolvedIsError ==
    \A p \in Paths :
        LET bad == {ref \in CompareRefs(p) : Unresolvable(p, ref)}
        IN  \A r1 \in bad : \A r2 \in StoredRefs(p) \cup {r1} :
                /\ IsErrorResult(CompareVersions(Stem(p), r1, r2))
                /\ IsErrorResult(CompareVersions(Stem(p), r2, r1))

\* two versions of different content: comparing them gives a diff, while
\* an index out of range, the empty string and an id that is not stored
\* give the error element
C20_Witness ==
    \E p \in Paths :
        /\ Len(ListVersions(p)) = 2
        /\ Len(CompareVersions(Stem(p), IntRef(0), IntRef(1))) > 1
        /\ IsErrorResult(CompareVersions(Stem(p), IntRef(0), IntRef(2)))
        /\ IsErrorResult(CompareVersions(Stem(p), StrRef(<<>>), IntRef(0)))
        /\ \E ref \in IdRefs :
               /\ ref.id # <<>>
               /\ Unresolvable(p, ref)
               /\ IsErrorResult(CompareVersions(Stem(p), IntRef(1), ref))

(***************************************************************************)
(* C21: every failure of compare_versions, an exception raised while the   *)
(* history directory, the metadata files or a content file are read       *)
(* included, is returned as a sequence whose first element begins with    *)
(* "Error:", the sentinel diff_versions_cmd tests for.  Stated as in the   *)
(* claim; violated, the element built for an exception other than         *)
(* ImportError begins with "Error comparing versions:".                    *)
(***************************************************************************)
C21_CompareFailureIsSentinel ==
    \A p \in Paths : \A r1 \in StoredRefs(p), r2 \in StoredRefs(p) :
        \A fault \in CompareFaults(Stem(p), r1, r2), e \in ExceptionTexts :
            LET diff_lines ==
                    CompareVersionsFailing(Stem(p), r1, r2, fault, e)
            IN  /\ diff_lines # <<>>
                /\ StartsWith(diff_lines[1], ErrorSentinel)

(***************************************************************************)
(* C22: comparing two references that resolve to stored versions with the  *)
(* same sequence of lines, a version with itself included, gives no line   *)
(* that begins with "+" or "-" and no error element.                       *)
(***************************************************************************)
\* the lines of the version the reference resolves to
LinesOf(p, ref) ==
    SplitLines(GetVersionContent(Stem(p), StrRef(ResolveVersionId(p, ref))))

C22_DiffIdentity ==
    \A p \in Paths :
        LET good == {ref \in StoredRefs(p) : ~Unresolvable(p, ref)}
        IN  \A r1 \in good, r2 \in good :
                LinesOf(p, r1) = LinesOf(p, r2)
                => LET diff == CompareVersions(Stem(p), r1, r2)
                   IN  \A i \in 1 .. Len(diff) :
                           /\ ~StartsWith(diff[i], <<"+">>)
                           /\ ~StartsWith(diff[i], <<"-">>)
                           /\ ~StartsWith(diff[i], ErrorSentinel)

\* three versions, two of them with the same lines under different ids:
\* these two compare without a line, the third gives "-" and "+" lines
C22_Witness ==
    \E p \in Paths :
        /\ Len(ListVersions(p)) = 3
        /\ \E i \in 0 .. 2, j \in 0 .. 2, k \in 0 .. 2 :
               /\ i # j
               /\ LinesOf(p, IntRef(i)) = LinesOf(p, IntRef(j))
               /\ CompareVersions(Stem(p), IntRef(i), IntRef(j)) = <<>>
               /\ CompareVersions(Stem(p), IntRef(k), IntRef(k)) = <<>>
               /\ \E n \in 1 .. Len(CompareVersions(Stem(p), IntRef(i),
                                                    IntRef(k))) :
                      StartsWith(CompareVersions(Stem(p), IntRef(i),
                                                 IntRef(k))[n], <<"+">>)

(***************************************************************************)
(* C23: through history view, history restore and history diff, a version  *)
(* named by its version id as history list shows it is the version that    *)
(* its shown index selects: the same id is resolved for restore, the same  *)
(* content is viewed, and a diff against it is the same.  Stated as in the *)
(* claim; violated, an id that consists of digits is turned into an index. *)
(***************************************************************************)
C23_ShownIdSelectsVersion ==
    \A p \in Paths :
        LET rows == DisplayVersions(ListVersions(p))
        IN  \A r \in 1 .. Len(rows) :
                LET byId == CliVersionRef(rows[r].version_id)
                    byIndex == CliVersionRef(rows[r].index)
                IN  /\ ResolveVersionId(p, byId) = ResolveVersionId(p, byIndex)
                    /\ ViewVersionCmd(p, rows[r].version_id)
                          = ViewVersionCmd(p, rows[r].index)
                    /\ DiffVersionsCmd(p, rows[r].version_id, rows[1].index)
                          = DiffVersionsCmd(p, rows[r].index, rows[1].index)

(***************************************************************************)
(* C24: the index display_versions shows in a row selects the version of   *)
(* that row, and the row shown with index 0 is the version that was        *)
(* written first.                                                          *)
(***************************************************************************)
ShownIndexSelectsRow(p) ==
    LET rows == DisplayVersions(ListVersions(p))
    IN  \A r \in 1 .. Len(rows) :
            ResolveVersionId(p, IntRef(PyInt(rows[r].index)))
                = rows[r].version_id

RowZeroIsOldest(p) ==
    LET rows == DisplayVersions(ListVersions(p))
    IN  \A r \in 1 .. Len(rows) :
            rows[r].index = Str(0)
            => rows[r].version_id = EarliestListed(p).version_id

C25_GetEditor ==
    editor # NotCalled =>
        /\ config.editor.default # "" => editor = config.editor.default
        /\ (config.editor.default = "" /\ "EDITOR" \in DOMAIN environ)
               => editor = environ["EDITOR"]
        /\ (config.editor.default = "" /\ "EDITOR" \notin DOMAIN environ)
               => editor = "nvim"

\* an editor is configured and another one exported: the configured one
\* is returned
C25_Witness ==
    /\ editor # NotCalled
    /\ config.editor.default = "vim"
    /\ "EDITOR" \in DOMAIN environ /\ environ["EDITOR"] = "nano"
    /\ editor = "vim"

(***************************************************************************)
(* C26: restore_version goes from resolving to the backup and from the     *)
(* backup to the overwrite.  A step of it changes the live note only in    *)
(* the overwrite, which it reaches only when the content file and the      *)
(* metadata file of the backup are both written; and a call that stops     *)
(* within the backup leaves the live note as it is and returns False.      *)
(***************************************************************************)
\* the backup of the call r is stored whole, given the history directory
\* of its note; a call on a note that does not exist takes no backup
BackupComplete(r, exists, md, json) ==
    \/ r.backup_id = None
    \/ /\ exists
       /\ r.backup_id \in DOMAIN md
       /\ md[r.backup_id] = WriteText(r.content)
       /\ r.backup_id \in DOMAIN json
       /\ json[r.backup_id].version_id = r.backup_id
       /\ json[r.backup_id].message = BackupMessage

\* the positions of a call within save_backup_version
BackupPositions == {"BackingUp", "WriteContent", "WriteMetadata"}

C26_RestoreOrder ==
    [][restoring'.pc # restoring.pc =>
          LET p == IF restoring.pc = "idle" THEN restoring'.path
                   ELSE restoring.path
              s == Stem(p)
          IN  /\ restoring.pc = "idle" => restoring'.pc = "BackingUp"
              /\ restoring'.pc = "Overwriting" =>
                     /\ restoring.pc \in BackupPositions
                     /\ BackupComplete(restoring', histDir'[s], mdFiles'[s],
                                       jsonFiles'[s])
              /\ live' # live =>
                     /\ restoring.pc = "Overwriting"
                     /\ BackupComplete(restoring, histDir[s], mdFiles[s],
                                       jsonFiles[s])
              /\ (restoring.pc \in BackupPositions /\ restoring'.pc = "idle")
                     => /\ live' = live
                        /\ last' = Call("restore", p, FALSE, None)]_vars

\* a call has stopped between the two writes of its backup: the content
\* file of the backup is there, its metadata file is not, the note is as
\* it was and the call returned False
C26_Witness ==
    \E p \in Paths :
        /\ last = Call("restore", p, FALSE, None)
        /\ restoring.pc = "idle"
        /\ live[p] = B
        /\ \E id \in DOMAIN mdFiles[Stem(p)] :
               /\ StartsWith(id, BackupPrefix)
               /\ id \notin DOMAIN jsonFiles[Stem(p)]
               /\ mdFiles[Stem(p)][id] = B

(***************************************************************************)
(* C30: nothing locks the note.  When another process writes the note      *)
(* after the backup of a restore_version call has read it and before the   *)
(* call overwrites it, the call still succeeds, the note then holds the    *)
(* restored version and the backup holds what had been read: what the      *)
(* other process wrote is in neither, unless it happens to equal one of    *)
(* them.  The witness is a state where it is lost: not in the note and in  *)
(* no stored version.                                                      *)
(***************************************************************************)
\* restore_version has just returned True, and wrote is what another
\* process had written to the note between its backup and its overwrite
RacedRestore(p) ==
    /\ restoring.pc = "idle"
    /\ restoring.path = p
    /\ restoring.wrote # NoContent
    /\ last = Call("restore", p, TRUE, restoring.version_id)

C30_RestoreOverwritesConcurrentWrite ==
    \A p \in Paths :
        RacedRestore(p) =>
            /\ live[p] = mdFiles[Stem(p)][restoring.version_id]
            /\ restoring.backup_id # None =>
                   mdFiles[Stem(p)][restoring.backup_id]
                       = WriteText(restoring.content)

\* the other process wrote B while the restore was between its backup and
\* its overwrite; the note now holds A, and no stored version holds B
C30_Witness ==
    \E p \in Paths :
        /\ RacedRestore(p)
        /\ restoring.wrote = B
        /\ restoring.backup_id # None
        /\ live[p] = A
        /\ \A id \in DOMAIN mdFiles[Stem(p)] : mdFiles[Stem(p)][id] # B

(***************************************************************************)
(* C27: after restore_version has succeeded in second T on a note that     *)
(* held L, with no other restore of the note in second T and the note not  *)
(* edited since (nor its history removed), a call                          *)
(* restore_version(note, "backup_<T>") in a later second returns True and  *)
(* leaves the note holding exactly L.  Stated as in the claim; violated    *)
(* for an L with "\r\n" line ends, which the backup stores as "\n".        *)
(***************************************************************************)
C27_UndoRestoresContent ==
    [][\A p \in Paths :
          (/\ undo[p].valid
           /\ clock > undo[p].T
           /\ RestoreVersion(p, StrRef(BackupPrefix \o Strftime(undo[p].T))))
          => (last'.ok /\ live'[p] = undo[p].L)]_vars

(***************************************************************************)
(* C28: every version that list_versions returns has retrievable content,  *)
(* and the version_id of its metadata is the id under which the content    *)
(* is stored, also after a save or a backup that failed between its two    *)
(* writes.                                                                 *)
(***************************************************************************)
\* every metadata file of the directory names itself and has its content
\* file beside it
ListedHaveContent(exists, md, json) ==
    \A id \in DOMAIN json :
        /\ json[id].version_id = id
        /\ ReadVersion(exists, md, json[id].version_id) # NoContent

C29_HistoryKeyedByStem ==
    [][\A p \in SameStemNotes, q \in SameStemNotes :
          LET listed == ListedIdsIn(histDir[Stem(q)], jsonFiles[Stem(q)])
              listed1 == ListedIdsIn(histDir'[Stem(q)], jsonFiles'[Stem(q)])
          IN  /\ (last'.op = "save" /\ last'.ok /\ last'.path = p
                    /\ q.stem = p.stem)
                 => /\ last'.id \in listed1
                    /\ ReadVersion(histDir'[Stem(q)], mdFiles'[Stem(q)],
                                   last'.id) = ReadText(live[p])
              /\ (RestoredOk(last', q) /\ q.stem = p.stem /\ q # p
                    /\ ~StartsWith(last'.id, BackupPrefix)
                    /\ jsonFiles[Stem(q)][last'.id].note_path = p)
                 => live'[q] = mdFiles[Stem(p)][last'.id]
              /\ (last'.op = "remove_history" /\ last'.path = p
                    /\ q.stem = p.stem)
                 => listed1 = {}
              /\ (last'.op \in {"save", "restore", "remove_history"}
                    /\ last'.path = p /\ q.stem # p.stem)
                 => /\ listed1 = listed
                    /\ mdFiles'[Stem(q)] = mdFiles[Stem(q)]]_vars

\* a version saved from one note has just been restored into another note
\* of the same stem, which held other content, while the note of another
\* stem has a version of its own
C29_Witness ==
    \E p \in SameStemNotes, q \in SameStemNotes, o \in SameStemNotes :
        /\ p # q /\ p.stem = q.stem /\ o.stem # p.stem
        /\ RestoredOk(last, q)
        /\ last.id \in DOMAIN jsonFiles[Stem(q)]
        /\ jsonFiles[Stem(q)][last.id].note_path = p
        /\ live[q] = mdFiles[Stem(p)][last.id]
        /\ live[q] \notin overwritten[q]
        /\ overwritten[q] # {}
        /\ ListedIds(o) # {}
        /\ ListedIds(o) # ListedIds(p)

====
